---------------------------- MODULE Spec2Model ----------------------------
(***************************************************************************)
(* Model of tools/omnissm/pkg/servicectl/service.go: detection of the     *)
(* host's service manager (systemd, upstart, SysV) by New, and the        *)
(* Start/Stop/Restart methods of the three Service implementations.       *)
(*                                                                         *)
(* A Go string is modelled as a sequence of tokens, so that formatting     *)
(* (errors.Wrapf, exec.LookPath's path join) is concatenation and          *)
(* strings.Contains is a real substring search.                            *)
(***************************************************************************)
EXTENDS Integers, Sequences, FiniteSets, TLC

VARIABLES
    host,      \* the machine: files that exist, executables on $PATH, what `/sbin/init --version` does
    name,      \* the argument of New
    svc,       \* the Service returned by New (nil before the call and on failure)
    ret,       \* the error returned by the last completed call (nil: success)
    op,        \* the call in progress, or the last one completed
    pc,        \* where the caller is: "new", "failed", "idle", "wait", "restart_stop", "sleep", "restart_start"
    spawned,   \* the subprocesses spawned by the call named by op, in order
    now,       \* milliseconds since the call named by op was entered
    wakeAt     \* when the time.Sleep in progress returns

vars == <<host, name, svc, ret, op, pc, spawned, now, wakeAt>>

----------------------------------------------------------------------------
(* Bounds of the model *)

\* longest output of `/sbin/init --version`, in tokens
MaxOutLen == 3
\* a call is followed for this long, and longer while its sleep lasts
MaxTime == 100
\* granularity of the clock
TickMs == 25

(* Constants of the program *)

\* time.Sleep(50 * time.Millisecond)
SleepMs == 50

----------------------------------------------------------------------------
(* Strings *)

Strings(alphabet, n) == UNION {[1..k -> alphabet] : k \in 0..n}

\* strings.Contains(s, substr)
Contains(s, substr) ==
    \E i \in 0..(Len(s) - Len(substr)) : SubSeq(s, i + 1, i + Len(substr)) = substr

\* Go's nil, for a Service and for an error
nil == [kind |-> "nil"]

----------------------------------------------------------------------------
(* The host *)

SystemdMarker == <<"/run/systemd/system">>
UpstartBridge == <<"/sbin/upstart-udev-bridge">>
InitBinary    == <<"/sbin/init">>
ServiceBinary == <<"/usr/sbin/service">>

\* the paths New passes to os.Stat
StatPaths == {SystemdMarker, UpstartBridge, InitBinary, ServiceBinary}

\* the banner isUpstart looks for: "init (upstart"
UpstartBanner == <<"init ", "(upstart">>

\* the executables New resolves
systemctl == <<"systemctl">>
initctl   == <<"initctl">>
service   == <<"service">>
Binaries  == {systemctl, initctl, service}

\* the directories of $PATH, in search order
PATH == << <<"/usr/bin">>, <<"/bin">> >>
Dirs == {PATH[i] : i \in 1..Len(PATH)}

\* what a subprocess can do: its exit status and what it wrote
ExitCodes == {0, 1}
VersionOutputs == Strings({"init ", "(upstart"}, MaxOutLen)
ToolOutputs == {<<>>, <<"Unknown instance">>}
Outcomes(outs) == [status : ExitCodes, out : outs]

Names == {<<"amazon-ssm-agent">>, <<"omnissm">>}

\* every machine: any files, any executables on $PATH, any behaviour of init
Hosts ==
    [fs : SUBSET StatPaths,
     onPath : SUBSET (Dirs \X Binaries),
     initVersion : Outcomes(VersionOutputs)]

\* machines whose three control tools are installed together in the
\* directories of one non-empty subset of $PATH and whose init is upstart's
CtlHosts ==
    [fs : SUBSET StatPaths,
     onPath : {ds \X Binaries : ds \in (SUBSET Dirs) \ {{}}},
     initVersion : {[status |-> 0, out |-> UpstartBanner]}]

----------------------------------------------------------------------------
(* Errors: kind is the cause, msg is Error() *)

\* exec.ErrNotFound wrapped in *exec.Error by exec.LookPath
ErrNotFound(file) ==
    [kind |-> "ErrNotFound", name |-> file, stack |-> FALSE,
     msg |-> <<"exec: ">> \o file \o <<": executable file not found in $PATH">>]

\* *exec.ExitError of a subprocess that exited non-zero
ExitError(status) ==
    [kind |-> "ExitError", name |-> <<>>, stack |-> FALSE,
     msg |-> <<"exit status ", ToString(status)>>]

\* errors.WithStack(err)
WithStack(e) == [e EXCEPT !.stack = TRUE]

\* errors.Errorf("cannot detect service manager")
DetectionError ==
    [kind |-> "DetectionError", name |-> <<>>, stack |-> TRUE,
     msg |-> <<"cannot detect service manager">>]

\* errors.Wrapf(err, "%s command failed", cmd)
Wrapf(e, cmd) ==
    [e EXCEPT !.stack = TRUE, !.msg = cmd \o <<" command failed">> \o <<": ">> \o e.msg]

----------------------------------------------------------------------------
(* Detection and construction *)

\* exec.LookPath(file): the first directory of $PATH that holds file
LookPath(file, onPath) ==
    LET hits == {i \in 1..Len(PATH) : <<PATH[i], file>> \in onPath}
    IN  IF hits = {}
        THEN [path |-> <<>>, err |-> ErrNotFound(file)]
        ELSE LET i == CHOOSE j \in hits : \A k \in hits : j <= k
             IN  [path |-> PATH[i] \o <<"/">> \o file, err |-> nil]

isSystemd(h) == SystemdMarker \in h.fs

isSysV(h) == ServiceBinary \in h.fs

\* ran: whether `/sbin/init --version` was spawned
isUpstart_IgnoresExit(h) ==
    IF UpstartBridge \in h.fs THEN [is |-> TRUE, ran |-> FALSE]
    ELSE IF InitBinary \in h.fs
         THEN [is |-> Contains(h.initVersion.out, UpstartBanner), ran |-> TRUE]
         ELSE [is |-> FALSE, ran |-> FALSE]

isUpstart(h) ==
    IF UpstartBridge \in h.fs THEN [is |-> TRUE, ran |-> FALSE]
    ELSE IF InitBinary \in h.fs
         THEN [is |-> h.initVersion.status = 0
                        /\ Contains(h.initVersion.out, UpstartBanner),
               ran |-> TRUE]
         ELSE [is |-> FALSE, ran |-> FALSE]

\* a case body of New's switch: resolve the control binary, build the handle
bind_IgnoresLookPathError(kind, file, n, h) ==
    LET lp == LookPath(file, h.onPath)
    IN  [svc |-> [kind |-> kind, cmd |-> IF lp.err # nil THEN file ELSE lp.path, name |-> n],
         err |-> nil]

bind(kind, file, n, h) ==
    LET lp == LookPath(file, h.onPath)
    IN  IF lp.err # nil
        THEN [svc |-> nil, err |-> WithStack(lp.err)]
        ELSE [svc |-> [kind |-> kind, cmd |-> lp.path, name |-> n], err |-> nil]

New_UpstartFirst(n, h) ==
    LET up == isUpstart(h)
    IN  IF up.is THEN bind("upstart", initctl, n, h) @@ [ran |-> up.ran]
        ELSE IF isSystemd(h) THEN bind("systemd", systemctl, n, h) @@ [ran |-> up.ran]
        ELSE IF isSysV(h) THEN bind("sysV", service, n, h) @@ [ran |-> up.ran]
        ELSE [svc |-> nil, err |-> DetectionError, ran |-> up.ran]

New_FallsBackToSysV(n, h) ==
    LET up == isUpstart(h)
    IN  IF isSystemd(h) THEN bind("systemd", systemctl, n, h) @@ [ran |-> FALSE]
        ELSE IF up.is THEN bind("upstart", initctl, n, h) @@ [ran |-> up.ran]
        ELSE bind("sysV", service, n, h) @@ [ran |-> up.ran]

\* the switch evaluates its cases in order and stops at the first true one,
\* so isUpstart runs only when isSystemd is false
New(n, h) ==
    LET up == isUpstart(h)
    IN  IF isSystemd(h) THEN bind("systemd", systemctl, n, h) @@ [ran |-> FALSE]
        ELSE IF up.is THEN bind("upstart", initctl, n, h) @@ [ran |-> up.ran]
        ELSE IF isSysV(h) THEN bind("sysV", service, n, h) @@ [ran |-> up.ran]
        ELSE [svc |-> nil, err |-> DetectionError, ran |-> up.ran]

----------------------------------------------------------------------------
(* Subprocesses *)

\* exec.Command(cmd, args...) started at time t
Proc(argv, t) ==
    [argv |-> argv, at |-> t, running |-> TRUE, exitAt |-> t, status |-> 0, out |-> <<>>]

\* the subprocess has exited at time t with outcome o
Exited(p, o, t) ==
    [p EXCEPT !.running = FALSE, !.exitAt = t, !.status = o.status, !.out = o.out]

\* exec.Command("/sbin/init", "--version")
InitVersionCmd == <<InitBinary, <<"--version">> >>

\* run(cmd, args...) once the subprocess p has exited
run(p) ==
    IF p.status # 0
    THEN [out |-> p.out, err |-> Wrapf(ExitError(p.status), p.argv[1])]
    ELSE [out |-> p.out, err |-> nil]

----------------------------------------------------------------------------
(* The three Service implementations: the command line each method runs *)

upstart_Start(u) == <<u.cmd, <<"start">>, u.name>>
upstart_Stop(u)  == <<u.cmd, <<"stop">>, u.name>>

systemd_Start(s)   == <<s.cmd, <<"start">>, s.name>>
systemd_Stop(s)    == <<s.cmd, <<"stop">>, s.name>>
systemd_Restart(s) == <<s.cmd, <<"restart">>, s.name>>

sysV_Start_SubcommandFirst(s) == <<s.cmd, <<"start">>, s.name>>

sysV_Start(s) == <<s.cmd, s.name, <<"start">> >>
sysV_Stop(s)  == <<s.cmd, s.name, <<"stop">> >>

\* Service.Start and Service.Stop, dispatched on the dynamic type
Start(s) ==
    CASE s.kind = "upstart" -> upstart_Start(s)
      [] s.kind = "systemd" -> systemd_Start(s)
      [] s.kind = "sysV"    -> sysV_Start(s)

Stop(s) ==
    CASE s.kind = "upstart" -> upstart_Stop(s)
      [] s.kind = "systemd" -> systemd_Stop(s)
      [] s.kind = "sysV"    -> sysV_Stop(s)

\* what Restart does with the error of its Stop: return it, or go on
upstart_Restart_PropagatesStop(err) ==
    IF err # nil THEN [return |-> TRUE, err |-> err] ELSE [return |-> FALSE, err |-> nil]

\* _ = u.Stop()
upstart_Restart_afterStop(err) == [return |-> FALSE, err |-> nil]

sysV_Restart_IgnoresStop(err) == [return |-> FALSE, err |-> nil]

\* err := s.Stop(); if err != nil { return err }
sysV_Restart_afterStop(err) ==
    IF err # nil THEN [return |-> TRUE, err |-> err] ELSE [return |-> FALSE, err |-> nil]

time_Sleep_ReturnsAtOnce(t, d) == t

\* time.Sleep(d) entered at time t returns no earlier than this
time_Sleep(t, d) == t + d

Last(log) == log[Len(log)]

----------------------------------------------------------------------------
(* Actions *)

\* New(name)
NewCall ==
    /\ pc = "new"
    /\ LET r == New(name, host)
       IN  /\ svc' = r.svc
           /\ ret' = r.err
           /\ pc' = IF r.err = nil THEN "idle" ELSE "failed"
           /\ spawned' = IF r.ran
                         THEN <<Exited(Proc(InitVersionCmd, now), host.initVersion, now)>>
                         ELSE <<>>
    /\ op' = "New"
    /\ UNCHANGED <<host, name, now, wakeAt>>

\* Start() is entered: run spawns the subprocess and waits for it
StartCall ==
    /\ pc = "idle"
    /\ op' = "Start"
    /\ spawned' = <<Proc(Start(svc), now)>>
    /\ pc' = "wait"
    /\ ret' = nil
    /\ now' = 0
    /\ UNCHANGED <<host, name, svc, wakeAt>>

\* Stop() is entered
StopCall ==
    /\ pc = "idle"
    /\ op' = "Stop"
    /\ spawned' = <<Proc(Stop(svc), now)>>
    /\ pc' = "wait"
    /\ ret' = nil
    /\ now' = 0
    /\ UNCHANGED <<host, name, svc, wakeAt>>

\* Restart() is entered: systemd runs its restart subcommand, the other two
\* begin with Stop()
RestartCall ==
    /\ pc = "idle"
    /\ op' = "Restart"
    /\ IF svc.kind = "systemd"
       THEN /\ spawned' = <<Proc(systemd_Restart(svc), now)>>
            /\ pc' = "wait"
       ELSE /\ spawned' = <<Proc(Stop(svc), now)>>
            /\ pc' = "restart_stop"
    /\ ret' = nil
    /\ now' = 0
    /\ UNCHANGED <<host, name, svc, wakeAt>>

RunReturns_Retries ==
    /\ pc \in {"wait", "restart_start"}
    /\ \E o \in Outcomes(ToolOutputs) :
         LET p == Exited(Last(spawned), o, now)
             log == [spawned EXCEPT ![Len(spawned)] = p]
         IN  IF p.status # 0 /\ Len(spawned) < 3
             THEN /\ spawned' = Append(log, Proc(p.argv, now))
                  /\ UNCHANGED <<ret, pc>>
             ELSE /\ spawned' = log
                  /\ ret' = run(p).err
                  /\ pc' = "idle"
    /\ UNCHANGED <<host, name, svc, op, now, wakeAt>>

\* the subprocess of Start, of Stop, of systemd's Restart or of the Start that
\* ends a Restart exits: the method returns run's error and drops its output
RunReturns ==
    /\ pc \in {"wait", "restart_start"}
    /\ \E o \in Outcomes(ToolOutputs) :
         LET p == Exited(Last(spawned), o, now)
         IN  /\ spawned' = [spawned EXCEPT ![Len(spawned)] = p]
             /\ ret' = run(p).err
    /\ pc' = "idle"
    /\ UNCHANGED <<host, name, svc, op, now, wakeAt>>

\* the Stop that begins the Restart of upstart and sysV returns
RestartStopReturns ==
    /\ pc = "restart_stop"
    /\ \E o \in Outcomes(ToolOutputs) :
         LET p == Exited(Last(spawned), o, now)
             k == IF svc.kind = "upstart"
                  THEN upstart_Restart_afterStop(run(p).err)
                  ELSE sysV_Restart_afterStop(run(p).err)
         IN  /\ spawned' = [spawned EXCEPT ![Len(spawned)] = p]
             /\ IF k.return
                THEN /\ pc' = "idle"
                     /\ ret' = k.err
                     /\ wakeAt' = wakeAt
                ELSE /\ pc' = "sleep"
                     /\ ret' = ret
                     /\ wakeAt' = time_Sleep(now, SleepMs)
    /\ UNCHANGED <<host, name, svc, op, now>>

\* time.Sleep has returned: Restart goes on to Start()
RestartResume ==
    /\ pc = "sleep"
    /\ now >= wakeAt
    /\ spawned' = Append(spawned, Proc(Start(svc), now))
    /\ pc' = "restart_start"
    /\ wakeAt' = 0
    /\ UNCHANGED <<host, name, svc, ret, op, now>>

\* time passes while a call is in progress
Tick ==
    /\ pc \in {"wait", "restart_stop", "sleep", "restart_start"}
    /\ now < MaxTime \/ (pc = "sleep" /\ now < wakeAt)
    /\ now' = now + TickMs
    /\ UNCHANGED <<host, name, svc, ret, op, pc, spawned, wakeAt>>

----------------------------------------------------------------------------
(* Specifications *)

InitOn(hosts) ==
    /\ host \in hosts
    /\ name \in Names
    /\ svc = nil
    /\ ret = nil
    /\ op = "none"
    /\ pc = "new"
    /\ spawned = <<>>
    /\ now = 0
    /\ wakeAt = 0

\* the whole program on a machine with its control tools installed
Init == InitOn(CtlHosts)

Next ==
    \/ NewCall
    \/ StartCall
    \/ StopCall
    \/ RestartCall
    \/ RunReturns
    \/ RestartStopReturns
    \/ RestartResume
    \/ Tick

Spec == Init /\ [][Next]_vars

\* construction alone, on every machine
InitDetect == InitOn(Hosts)

NextDetect == NewCall

SpecDetect == InitDetect /\ [][NextDetect]_vars

----------------------------------------------------------------------------
(* Vocabulary of the properties, stated on the state alone *)

Calls == {"Start", "Stop", "Restart"}

Constructed == op = "New"

HasSystemdMarker == SystemdMarker \in host.fs
HasUpstartBridge == UpstartBridge \in host.fs
HasInit          == InitBinary \in host.fs
HasSysVMarker    == ServiceBinary \in host.fs

VersionSaysUpstart ==
    \E i \in 1..Len(host.initVersion.out) - 1 :
        /\ host.initVersion.out[i] = "init "
        /\ host.initVersion.out[i + 1] = "(upstart"

\* the upstart condition as the code evaluates it
UpstartCondition ==
    HasUpstartBridge \/ (HasInit /\ host.initVersion.status = 0 /\ VersionSaysUpstart)

Resolvable(file) == \E d \in Dirs : <<d, file>> \in host.onPath

\* the path the search of $PATH yields for a resolvable file
FirstOnPath(file) ==
    IF <<PATH[1], file>> \in host.onPath
    THEN <<PATH[1][1], "/", file[1]>>
    ELSE <<PATH[2][1], "/", file[1]>>

BinaryOf(kind) ==
    CASE kind = "systemd" -> systemctl
      [] kind = "upstart" -> initctl
      [] kind = "sysV"    -> service

\* the backend the fixed priority order selects, "nil" when none matches
Selected ==
    IF HasSystemdMarker THEN "systemd"
    ELSE IF UpstartCondition THEN "upstart"
    ELSE IF HasSysVMarker THEN "sysV"
    ELSE "nil"

\* New took the upstart case of its switch
UpstartChosen ==
    \/ svc.kind = "upstart"
    \/ (svc = nil /\ ret.kind = "ErrNotFound" /\ ret.name = initctl)

\* Error() of the error a method returns for a tool that exited non-zero
ExecErrorMsg(cmd, status) ==
    cmd \o <<" command failed", ": ", "exit status ", ToString(status)>>

----------------------------------------------------------------------------
(* Properties *)

\* C1: with the three control binaries resolvable, New returns the handle of
\* the first backend that matches in the order systemd, upstart, SysV; with
\* the systemd and the upstart marker both present it is the systemd handle.
C1_DetectionPriority ==
    (Constructed /\ \A b \in Binaries : Resolvable(b)) =>
        /\ svc.kind = Selected
        /\ Selected # "nil" =>
              /\ ret = nil
              /\ svc.name = name
              /\ svc.cmd = FirstOnPath(BinaryOf(Selected))
        /\ (HasSystemdMarker /\ HasUpstartBridge) => svc.kind = "systemd"

C1_Witness ==
    /\ Constructed
    /\ \A b \in Binaries : Resolvable(b)
    /\ HasSystemdMarker /\ HasUpstartBridge /\ HasSysVMarker
    /\ svc.kind = "systemd"

\* C2: with no systemd marker, the upstart condition false and no SysV
\* marker, New returns no handle and the detection error, whatever is on $PATH.
C2_DetectionFailure ==
    (Constructed /\ ~HasSystemdMarker /\ ~UpstartCondition /\ ~HasSysVMarker) =>
        /\ svc = nil
        /\ pc = "failed"
        /\ ret.kind = "DetectionError"
        /\ ret.msg = <<"cannot detect service manager">>

C2_Witness ==
    /\ Constructed
    /\ ~HasSystemdMarker /\ ~HasUpstartBridge /\ ~HasSysVMarker
    /\ HasInit /\ ~VersionSaysUpstart
    /\ \A b \in Binaries : Resolvable(b)
    /\ svc = nil
    /\ ret.kind = "DetectionError"

\* C3: in sysV's Restart a stop that exits non-zero ends the call: Restart
\* returns the stop's error and spawns no start.
C3_SysVRestartStopFailure ==
    (/\ svc.kind = "sysV"
     /\ op = "Restart"
     /\ Len(spawned) >= 1
     /\ ~spawned[1].running
     /\ spawned[1].status # 0) =>
        /\ pc = "idle"
        /\ Len(spawned) = 1
        /\ spawned[1].argv = <<svc.cmd, svc.name, <<"stop">> >>
        /\ ret.kind = "ExitError"
        /\ ret.msg = ExecErrorMsg(svc.cmd, spawned[1].status)

C3_Witness ==
    /\ svc.kind = "sysV"
    /\ op = "Restart"
    /\ pc = "idle"
    /\ Len(spawned) = 1
    /\ spawned[1].status = 1
    /\ ret.kind = "ExitError"

\* C4: upstart's Restart never ends on its stop: whatever the stop did, start
\* is spawned, and Restart returns exactly what the start step returns.
C4_UpstartRestart ==
    (svc.kind = "upstart" /\ op = "Restart") =>
        /\ (Len(spawned) = 1 /\ ~spawned[1].running) => pc = "sleep"
        /\ pc = "idle" =>
              /\ Len(spawned) = 2
              /\ ~spawned[2].running
              /\ spawned[2].argv = <<svc.cmd, <<"start">>, svc.name>>
              /\ spawned[2].status = 0 => ret = nil
              /\ spawned[2].status # 0 =>
                    /\ ret.kind = "ExitError"
                    /\ ret.msg = ExecErrorMsg(svc.cmd, spawned[2].status)

C4_Witness ==
    /\ svc.kind = "upstart"
    /\ op = "Restart"
    /\ pc = "idle"
    /\ Len(spawned) = 2
    /\ spawned[1].status = 1
    /\ spawned[2].status = 0
    /\ ret = nil

\* C5: every subprocess of Start, Stop and Restart has the argument vector
\* [bin, subcommand, name] for systemd and upstart and [bin, name, subcommand]
\* for sysV, where bin is the resolved path of the backend's control binary and
\* name the argument of New; systemd's Restart runs the restart subcommand.
C5_ArgumentVectors ==
    op \in Calls =>
        \A i \in 1..Len(spawned) :
            LET bin == FirstOnPath(BinaryOf(svc.kind))
                sub == IF op = "Start" THEN <<"start">>
                       ELSE IF op = "Stop" THEN <<"stop">>
                       ELSE IF svc.kind = "systemd" THEN <<"restart">>
                       ELSE IF i = 1 THEN <<"stop">>
                       ELSE <<"start">>
            IN  spawned[i].argv = IF svc.kind = "sysV"
                                  THEN <<bin, name, sub>>
                                  ELSE <<bin, sub, name>>

C5_Witness ==
    /\ svc.kind = "sysV"
    /\ op = "Start"
    /\ Len(spawned) = 1
    /\ spawned[1].argv = << <<"/bin", "/", "service">>, <<"omnissm">>, <<"start">> >>

\* C6: in the Restart of upstart and sysV no start is spawned while the stop
\* runs or during the pause, and the start is spawned at least SleepMs after
\* the stop has exited.
C6_RestartPause ==
    (svc.kind \in {"upstart", "sysV"} /\ op = "Restart") =>
        /\ pc \in {"restart_stop", "sleep"} => Len(spawned) = 1
        /\ Len(spawned) >= 2 =>
              /\ ~spawned[1].running
              /\ spawned[2].argv[1] = svc.cmd
              /\ spawned[2].at >= spawned[1].exitAt + SleepMs

C6_Witness ==
    /\ svc.kind = "sysV"
    /\ op = "Restart"
    /\ Len(spawned) = 2
    /\ spawned[1].exitAt = TickMs
    /\ spawned[2].at = spawned[1].exitAt + SleepMs

\* C7: a call whose tool exited non-zero returns an error whose text includes
\* the tool name and the output the subprocess wrote, and the command is not
\* run again.
C7_ErrorCarriesOutput ==
    (pc = "idle" /\ op \in Calls /\ Last(spawned).status # 0) =>
        /\ ret # nil
        /\ Contains(ret.msg, Last(spawned).argv[1])
        /\ Contains(ret.msg, Last(spawned).out)
        /\ \A i, j \in 1..Len(spawned) : spawned[i].argv = spawned[j].argv => i = j

\* C8 as stated: every completed Start, Stop and Restart has spawned exactly
\* one subprocess.
C8_OneSubprocessPerCall ==
    (pc = "idle" /\ op \in Calls) => Len(spawned) = 1

\* C8 as amended: Start and Stop spawn exactly one subprocess on every
\* backend and Restart one on systemd; Restart spawns two on upstart, and on
\* sysV two, or one when its stop exits non-zero.
C8_SubprocessesPerCall ==
    op \in Calls =>
        LET two == /\ op = "Restart"
                   /\ \/ svc.kind = "upstart"
                      \/ svc.kind = "sysV" /\ spawned[1].status = 0
            n == IF two THEN 2 ELSE 1
        IN  /\ Len(spawned) >= 1
            /\ Len(spawned) <= n
            /\ pc = "idle" => Len(spawned) = n

C8_Witness ==
    /\ pc = "idle"
    /\ op = "Restart"
    /\ svc.kind = "upstart"
    /\ Len(spawned) = 2

\* C9 as stated: isUpstart holds exactly when the bridge binary exists, or the
\* init binary exists and the output of `/sbin/init --version` contains
\* "init (upstart", whatever the exit status of that command.
C9_UpstartIffBanner ==
    (Constructed /\ ~HasSystemdMarker) =>
        (UpstartChosen <=> (HasUpstartBridge \/ (HasInit /\ VersionSaysUpstart)))

\* C9 as amended: isUpstart holds exactly when the bridge binary exists, or
\* the init binary exists and `/sbin/init --version` exits with status 0 and
\* its output contains "init (upstart"; the version command is spawned only
\* when the bridge binary is absent and the init binary exists.
C9_UpstartDetection ==
    Constructed =>
        /\ ~HasSystemdMarker =>
              /\ UpstartChosen <=>
                    (HasUpstartBridge
                        \/ (HasInit /\ host.initVersion.status = 0 /\ VersionSaysUpstart))
              /\ spawned # <<>> <=> (~HasUpstartBridge /\ HasInit)
        /\ HasSystemdMarker => spawned = <<>>
        /\ \A i \in 1..Len(spawned) :
              /\ i = 1
              /\ spawned[i].argv = << <<"/sbin/init">>, <<"--version">> >>
              /\ spawned[i].status = host.initVersion.status
              /\ spawned[i].out = host.initVersion.out

C9_Witness ==
    /\ Constructed
    /\ ~HasSystemdMarker /\ ~HasUpstartBridge /\ HasInit
    /\ host.initVersion = [status |-> 0, out |-> <<"(upstart", "init ", "(upstart">>]
    /\ Len(spawned) = 1
    /\ svc.kind = "upstart"

\* C10: when the control binary of the selected backend is not on $PATH, New
\* returns the lookup's error and no handle, whatever else is installed; a
\* handle is returned only with the selected backend's binary resolved.
C10_NoFallThrough ==
    Constructed =>
        /\ (Selected # "nil" /\ ~Resolvable(BinaryOf(Selected))) =>
              /\ svc = nil
              /\ pc = "failed"
              /\ ret.kind = "ErrNotFound"
              /\ ret.name = BinaryOf(Selected)
        /\ svc # nil =>
              /\ svc.kind = Selected
              /\ Resolvable(BinaryOf(Selected))
              /\ svc.cmd = FirstOnPath(BinaryOf(Selected))

C10_Witness ==
    /\ Constructed
    /\ HasSystemdMarker /\ ~Resolvable(systemctl)
    /\ HasSysVMarker /\ Resolvable(service)
    /\ HasUpstartBridge /\ Resolvable(initctl)
    /\ svc = nil
    /\ ret.kind = "ErrNotFound"

====
